---- MODULE Spec2Model ----
(***************************************************************************)
(* Partitioned aggregation job of docker-mpi: one coordinator (rank 0) and *)
(* worker ranks exchanging point-to-point messages (master-only programs   *)
(* t3_master_only, t3q2_master, t3q3_master, t3q4_master) or collective    *)
(* gathers (participating programs t3.MPISolution.run, t3q2.MPISolution.run)*)
(*                                                                         *)
(* Data representation:                                                    *)
(*  - a string is a sequence of character codes (32 = space, 65 = "A" ...);*)
(*    Python's str order is the lexicographic order of these sequences;    *)
(*  - pd.NA in a string column is NAs, NaN in a numeric column is NAn;     *)
(*  - a number read by pd.to_numeric is kept in units of 1/Scale, so that  *)
(*    int(r) (truncation) and float sums are computed, not assumed; a float *)
(*    has MantBits significant bits and every float operation rounds.      *)
(***************************************************************************)
EXTENDS Integers, Sequences, FiniteSets, TLC

\* ------------------------------------------------------------ bounds
\* largest number of MPI ranks (mpirun -n)
MaxSize == 4
\* largest DATASET_SIZE (rows of the file)
MaxRows == 3
\* largest N and W of the partitioner specification
MaxPartN == 9
MaxPartW == 5
\* largest row count and worker count of the query-job specification
MaxJobRows == 3
MaxJobW == 3
\* largest occurrence count of one label in the label-picker specification
MaxLabelCount == 2
\* largest number of users and of books in a merged map of the resolver
\* specification
MaxUsers == 3
MaxBooks == 12
\* largest rating count of one book in a merged map of the resolver specification
MaxMatchCount == 3
\* largest row count and worker count of the merge specification
MaxMergeRows == 3
MaxMergeW == 3
\* largest row count of a partition in the local-aggregator specification
MaxAggRows == 3
\* largest number of MPI ranks and largest DATASET_SIZE of the fair specification
MaxLiveSize == 3
MaxLiveRows == 1
\* significand width, in bits, of the floating-point numbers of the model
\* (binary64 has 53): a sum that needs more bits is rounded
MantBits == 4

\* ------------------------------------------------------------ values
\* resolution of a parsed number: value v stands for v / Scale
Scale == 2
\* NaN of a numeric column (pd.to_numeric(errors="coerce"), empty cell)
NAn == -1
\* pd.NA of a string column
NAs == <<0>>

Num(k) == k * Scale

\* the number n / d (d divides n * Scale)
Frac(n, d) == (n * Scale) \div d

\* int(r) of a non-negative float: truncation
IntOf(v) == v \div Scale

EmptyMap == [x \in {} |-> 0]

Put(f, k, v) == [x \in (DOMAIN f) \cup {k} |-> IF x = k THEN v ELSE f[x]]

\* Counter()[k] += 1
Inc(c, k) == Put(c, k, (IF k \in DOMAIN c THEN c[k] ELSE 0) + 1)

\* Counter.update(other): key-wise sum
CounterUpdate(c, d) ==
    [x \in (DOMAIN c) \cup (DOMAIN d) |->
        (IF x \in DOMAIN c THEN c[x] ELSE 0) + (IF x \in DOMAIN d THEN d[x] ELSE 0)]

RECURSIVE LStrip(_)
LStrip(s) == IF s # <<>> /\ Head(s) = 32 THEN LStrip(Tail(s)) ELSE s

RECURSIVE RStrip(_)
RStrip(s) ==
    IF s # <<>> /\ s[Len(s)] = 32 THEN RStrip(SubSeq(s, 1, Len(s) - 1)) ELSE s

\* str.strip()
Strip(s) == RStrip(LStrip(s))

\* Python's s < t on str
RECURSIVE StrLess(_, _)
StrLess(s, t) ==
    IF t = <<>> THEN FALSE
    ELSE IF s = <<>> THEN TRUE
    ELSE IF Head(s) # Head(t) THEN Head(s) < Head(t)
    ELSE StrLess(Tail(s), Tail(t))

\* sorted(S)[0]
MinStr(S) == CHOOSE s \in S : \A t \in S : t = s \/ StrLess(s, t)

RECURSIVE SumSeq(_)
SumSeq(s) == IF s = <<>> THEN 0 ELSE Head(s) + SumSeq(Tail(s))

SetMax(S) == CHOOSE x \in S : \A y \in S : y <= x

\* ------------------------------------------------------------ floats
\* A Python float holding v / Scale is the integer v; its significand is the
\* significand of v, so rounding v to MantBits significant bits is the rounding
\* of the float (round to nearest, ties to even).
RECURSIVE BitLen(_)
BitLen(x) == IF x = 0 THEN 0 ELSE 1 + BitLen(x \div 2)

FlAbs(x) ==
    IF BitLen(x) <= MantBits THEN x
    ELSE LET q == 2 ^ (BitLen(x) - MantBits)
             m == x \div q
             rem == x - m * q
         IN  IF 2 * rem < q THEN m * q
             ELSE IF 2 * rem > q THEN (m + 1) * q
             ELSE IF m % 2 = 0 THEN m * q ELSE (m + 1) * q

\* the float nearest to the real number x
Fl(x) == IF x < 0 THEN 0 - FlAbs(0 - x) ELSE FlAbs(x)

\* a + b and a - b on floats
FAdd(a, b) == Fl(a + b)
FSub(a, b) == Fl(a - b)

\* ------------------------------------------------------------ partitioner
\* base = DATASET_SIZE // workers
Base(n, w) == n \div w

\* faulty split: the last worker gets no remainder
RangeOfNoRemainder(n, workers, w) ==
    <<w * Base(n, workers), (w + 1) * Base(n, workers)>>

\* faulty split: the remainder is spread over the first workers
RangeOfBalanced(n, workers, w) ==
    LET rem == n - workers * Base(n, workers)
        lo == w * Base(n, workers) + (IF w < rem THEN w ELSE rem)
    IN  <<lo, lo + Base(n, workers) + (IF w < rem THEN 1 ELSE 0)>>

\* lo = w * base ; hi = (w + 1) * base if w < workers - 1 else DATASET_SIZE
\* (w counts from 0)
RangeOf(n, workers, w) ==
    <<w * Base(n, workers),
      IF w < workers - 1 THEN (w + 1) * Base(n, workers) ELSE n>>

\* the list `ranges` after the loop
Ranges(n, workers) == [i \in 1..workers |-> RangeOf(n, workers, i - 1)]

\* faulty chunk list: no entry for rank 0
MasterChunkSizesNoLead(rs) == [i \in 1..Len(rs) |-> rs[i][2] - rs[i][1]]

\* chunk_sizes = [0] + [hi - lo for (lo, hi) in ranges]
MasterChunkSizes(rs) == <<0>> \o [i \in 1..Len(rs) |-> rs[i][2] - rs[i][1]]

\* chunks = [base] * (size - 1) + [total - base * (size - 1)]
RunChunks(total, sz) ==
    [i \in 1..sz |-> IF i < sz THEN Base(total, sz)
                     ELSE total - Base(total, sz) * (sz - 1)]

\* ------------------------------------------------------------ rows
\* one record of the dataset (the columns the four queries read)
Row(uid, uname, bid, btitle, price, score) ==
    [UId |-> uid, UName |-> uname, BId |-> bid, BTitle |-> btitle,
     BPrice |-> price, RScore |-> score]

\* the rows [lo, hi) of the file: read_csv(skiprows=range(1, lo + 1), nrows=hi - lo)
ReadRange(file, lo, hi) ==
    IF hi <= lo \/ lo >= Len(file) THEN <<>>
    ELSE SubSeq(file, lo + 1, IF hi <= Len(file) THEN hi ELSE Len(file))

\* ------------------------------------------------------------ Q2: t3q2.py / t3.py
\* df.groupby("BId")["RScore"].sum(): the ratings of book b in row order, NaN
\* skipped, accumulated in floats by the library's group sum (Kahan compensation:
\* y = val - comp ; t = sumx + y ; comp = t - sumx - y ; sumx = t)
RECURSIVE GroupSum(_, _, _, _)
GroupSum(rs, b, sumx, comp) ==
    IF rs = <<>> THEN sumx
    ELSE IF Head(rs).BId # b \/ Head(rs).RScore = NAn
    THEN GroupSum(Tail(rs), b, sumx, comp)
    ELSE LET y == FSub(Head(rs).RScore, comp)
             t == FAdd(sumx, y)
         IN  GroupSum(Tail(rs), b, t, FSub(FSub(t, sumx), y))

RSum(rs, b) == GroupSum(rs, b, 0, 0)

\* rcnt = RScore.notna().astype(int) summed per BId
RECURSIVE RCnt(_, _)
RCnt(rs, b) ==
    IF rs = <<>> THEN 0
    ELSE (IF Head(rs).BId = b /\ Head(rs).RScore # NAn THEN 1 ELSE 0)
         + RCnt(Tail(rs), b)

\* dropna(subset=["BPrice"]).drop_duplicates(subset=["BId"], keep="last")
PriceAny(rs, b) ==
    LET I == {i \in 1..Len(rs) : rs[i].BId = b /\ rs[i].BPrice # NAn}
    IN  IF I = {} THEN NAn ELSE rs[SetMax(I)].BPrice

\* a / c == t on floats, for c > 0 and a float t > 0: the quotient is the float
\* nearest to the real a / c, so it is t exactly when the real quotient lies within
\* half a spacing of t, the end points included when the significand of t is even.
\* Everything is multiplied by c * 2^(MantBits + 1) to stay in the integers: the
\* half spacing above t is then 2^BitLen(t), and below t it is the same, or half
\* of it when t is a power of two.
FDivIs(a, c, t) ==
    LET L == BitLen(t)
        D == 2 ^ (MantBits + 1)
        up == 2 ^ L
        dn == IF t = 2 ^ (L - 1) THEN 2 ^ (L - 1) ELSE 2 ^ L
        even == IF L < MantBits THEN TRUE
                ELSE (t \div (2 ^ (L - MantBits))) % 2 = 0
    IN  IF even
        THEN c * (D * t - dn) <= D * a /\ D * a <= c * (D * t + up)
        ELSE c * (D * t - dn) < D * a /\ D * a < c * (D * t + up)

\* avg = rsum / rcnt ; avg == k
AvgEq(s, c, k) == FDivIs(s, c, Num(k))

\* part_map of _process_slice: BId -> (rsum, rcnt, price_or_None)
ProcessSliceMap(rs) ==
    LET bids == {rs[i].BId : i \in 1..Len(rs)} \ {NAs}
    IN  [b \in bids |-> <<RSum(rs, b), RCnt(rs, b), PriceAny(rs, b)>>]

\* local_hits of _process_slice
ProcessSliceHits(rs) ==
    LET m == ProcessSliceMap(rs)
    IN  Cardinality({b \in DOMAIN m :
            m[b][2] > 0 /\ AvgEq(m[b][1], m[b][2], 5) /\ m[b][3] = Num(2)})

\* global_map folded with one more partial map m: g[0] += s (floats), g[1] += c
\* (ints), and the price is set only while it is None
MergeQ2Step(g, m) ==
    [b \in (DOMAIN g) \cup (DOMAIN m) |->
        IF b \notin DOMAIN m THEN g[b]
        ELSE LET old == IF b \in DOMAIN g THEN g[b] ELSE <<0, 0, NAn>>
             IN  <<FAdd(old[1], m[b][1]), old[2] + m[b][2],
                   IF old[3] = NAn /\ m[b][3] # NAn THEN m[b][3] ELSE old[3]>>]

RECURSIVE MergeQ2(_, _)
MergeQ2(g, maps) ==
    IF maps = <<>> THEN g ELSE MergeQ2(MergeQ2Step(g, Head(maps)), Tail(maps))

\* t3q2_master.py / t3q2.py: c > 0 and s == 5 * c and price == 2
FinalQ2(g) ==
    Cardinality({b \in DOMAIN g :
        g[b][2] > 0 /\ g[b][1] = Num(5) * g[b][2] /\ g[b][3] = Num(2)})

\* faulty resolver: avg = s // c (floor division)
FinalQ2AvgFloor(g) ==
    Cardinality({b \in DOMAIN g :
        g[b][2] > 0 /\ Num(5) * g[b][2] <= g[b][1] /\ g[b][1] < Num(6) * g[b][2]
        /\ g[b][3] = Num(2)})

\* t3.py / t3_master_only.py: avg = s / c ; avg == 5 and price == 2
FinalQ2Avg(g) ==
    Cardinality({b \in DOMAIN g :
        g[b][2] > 0 /\ AvgEq(g[b][1], g[b][2], 5) /\ g[b][3] = Num(2)})

\* ------------------------------------------------------------ Q3: t3q3.py
Q3Default == [sum |-> 0, cnt |-> 0, books |-> {}, name_counts |-> EmptyMap]

\* the body of the row loop of _work
Q3Row(local, row) ==
    IF row.RScore = NAn THEN local
    ELSE IF row.UId = NAs \/ row.BId = NAs THEN local
    ELSE LET old == IF row.UId \in DOMAIN local THEN local[row.UId] ELSE Q3Default
             s == Strip(row.UName)
         IN  Put(local, row.UId,
                 [sum |-> old.sum + IntOf(row.RScore),
                  cnt |-> old.cnt + 1,
                  books |-> old.books \cup {row.BId},
                  name_counts |-> IF row.UName # NAs /\ s # <<>>
                                  THEN Inc(old.name_counts, s)
                                  ELSE old.name_counts])

RECURSIVE Q3Work(_, _)
Q3Work(local, rs) ==
    IF rs = <<>> THEN local ELSE Q3Work(Q3Row(local, Head(rs)), Tail(rs))

\* faulty merge: u["sum"] = ..., u["cnt"] = ... instead of +=
MergeQ3StepOverwrite(users, m) ==
    [u \in (DOMAIN users) \cup (DOMAIN m) |->
        IF u \notin DOMAIN m THEN users[u]
        ELSE LET old == IF u \in DOMAIN users THEN users[u] ELSE Q3Default
             IN  [sum |-> m[u].sum,
                  cnt |-> m[u].cnt,
                  books |-> old.books \cup m[u].books,
                  name_counts |-> CounterUpdate(old.name_counts, m[u].name_counts)]]

MergeQ3Step(users, m) ==
    [u \in (DOMAIN users) \cup (DOMAIN m) |->
        IF u \notin DOMAIN m THEN users[u]
        ELSE LET old == IF u \in DOMAIN users THEN users[u] ELSE Q3Default
             IN  [sum |-> old.sum + m[u].sum,
                  cnt |-> old.cnt + m[u].cnt,
                  books |-> old.books \cup m[u].books,
                  name_counts |-> CounterUpdate(old.name_counts, m[u].name_counts)]]

RECURSIVE MergeQ3(_, _)
MergeQ3(users, maps) ==
    IF maps = <<>> THEN users ELSE MergeQ3(MergeQ3Step(users, Head(maps)), Tail(maps))

\* faulty picker: sorted(...)[-1], the largest of the tied names
pick_display_nameLast(uid, counts) ==
    IF DOMAIN counts = {} THEN uid
    ELSE LET top == SetMax({counts[n] : n \in DOMAIN counts})
             tied == {n \in DOMAIN counts : counts[n] = top}
         IN  CHOOSE n \in tied : \A t \in tied : t = n \/ StrLess(t, n)

pick_display_name(uid, counts) ==
    IF DOMAIN counts = {} THEN uid
    ELSE LET top == SetMax({counts[n] : n \in DOMAIN counts})
         IN  MinStr({n \in DOMAIN counts : counts[n] = top})

\* sorted(S) of a set of strings
RECURSIVE SortedStrs(_)
SortedStrs(S) ==
    IF S = {} THEN <<>> ELSE <<MinStr(S)>> \o SortedStrs(S \ {MinStr(S)})

\* ", ".join(list)
RECURSIVE Join(_)
Join(l) ==
    IF l = <<>> THEN <<>>
    ELSE IF Len(l) = 1 THEN l[1]
    ELSE l[1] \o <<44, 32>> \o Join(Tail(l))

\* faulty resolver: every user competes, eligible or not
FinalQ3NoEligibility(users) ==
    IF DOMAIN users = {} THEN <<>>
    ELSE LET best == SetMax({Cardinality(users[u].books) : u \in DOMAIN users})
             winners == {u \in DOMAIN users : Cardinality(users[u].books) = best}
         IN  Join(SortedStrs({pick_display_name(u, users[u].name_counts) :
                                 u \in winners}))

FinalQ3(users) ==
    LET eligible == {u \in DOMAIN users :
                        users[u].cnt # 0 /\ users[u].sum = 4 * users[u].cnt}
    IN  IF eligible = {} THEN <<>>
        ELSE LET best == SetMax({Cardinality(users[u].books) : u \in eligible})
                 winners == {u \in eligible : Cardinality(users[u].books) = best}
             IN  Join(SortedStrs({pick_display_name(u, users[u].name_counts) :
                                     u \in winners}))

\* ------------------------------------------------------------ Q4: t3q4.py
Q4Default == [sum |-> 0, cnt |-> 0, price |-> NAn, title_counts |-> EmptyMap]

Q4Row(local, row) ==
    IF row.RScore = NAn THEN local
    ELSE IF row.BId = NAs THEN local
    ELSE LET old == IF row.BId \in DOMAIN local THEN local[row.BId] ELSE Q4Default
             s == Strip(row.BTitle)
         IN  Put(local, row.BId,
                 [sum |-> old.sum + IntOf(row.RScore),
                  cnt |-> old.cnt + 1,
                  price |-> IF old.price = NAn /\ row.BPrice # NAn
                            THEN row.BPrice ELSE old.price,
                  title_counts |-> IF row.BTitle # NAs /\ s # <<>>
                                   THEN Inc(old.title_counts, s)
                                   ELSE old.title_counts])

RECURSIVE Q4Work(_, _)
Q4Work(local, rs) ==
    IF rs = <<>> THEN local ELSE Q4Work(Q4Row(local, Head(rs)), Tail(rs))

\* faulty merge: every partial that has a price overwrites the captured one
MergeQ4StepLastWins(books, pm) ==
    [b \in (DOMAIN books) \cup (DOMAIN pm) |->
        IF b \notin DOMAIN pm THEN books[b]
        ELSE LET old == IF b \in DOMAIN books THEN books[b] ELSE Q4Default
             IN  [sum |-> old.sum + pm[b].sum,
                  cnt |-> old.cnt + pm[b].cnt,
                  price |-> IF pm[b].price # NAn THEN pm[b].price ELSE old.price,
                  title_counts |-> CounterUpdate(old.title_counts, pm[b].title_counts)]]

MergeQ4Step(books, pm) ==
    [b \in (DOMAIN books) \cup (DOMAIN pm) |->
        IF b \notin DOMAIN pm THEN books[b]
        ELSE LET old == IF b \in DOMAIN books THEN books[b] ELSE Q4Default
             IN  [sum |-> old.sum + pm[b].sum,
                  cnt |-> old.cnt + pm[b].cnt,
                  price |-> IF old.price = NAn /\ pm[b].price # NAn
                            THEN pm[b].price ELSE old.price,
                  title_counts |-> CounterUpdate(old.title_counts, pm[b].title_counts)]]

RECURSIVE MergeQ4(_, _)
MergeQ4(books, maps) ==
    IF maps = <<>> THEN books ELSE MergeQ4(MergeQ4Step(books, Head(maps)), Tail(maps))

pick_title(tc) ==
    IF DOMAIN tc = {} THEN <<>>
    ELSE LET top == SetMax({tc[t] : t \in DOMAIN tc})
         IN  MinStr({t \in DOMAIN tc : tc[t] = top})

\* candidates.sort(key=lambda x: (-x[1], x[0])) ; a candidate is <<title, price, bid>>
CandBefore(x, y) ==
    \/ x[2] > y[2]
    \/ x[2] = y[2] /\ StrLess(x[1], y[1])
    \/ x[2] = y[2] /\ x[1] = y[1] /\ StrLess(x[3], y[3])

RECURSIVE SortedCands(_)
SortedCands(S) ==
    IF S = {} THEN <<>>
    ELSE LET first == CHOOSE x \in S : \A y \in S : y = x \/ CandBefore(x, y)
         IN  <<first>> \o SortedCands(S \ {first})

\* K of candidates[:10]
TopK == 10

\* final = {title: price for title, price in top10}: a repeated title keeps its
\* first position and takes the last price
RECURSIVE DictOf(_, _)
DictOf(d, l) ==
    IF l = <<>> THEN d
    ELSE LET t == l[1][1]
             p == l[1][2]
             at == {i \in 1..Len(d) : d[i][1] = t}
         IN  DictOf(IF at = {} THEN Append(d, <<t, p>>)
                    ELSE [i \in 1..Len(d) |-> IF i \in at THEN <<t, p>> ELSE d[i]],
                    Tail(l))

FinalQ4(books) ==
    LET cands == {<<pick_title(books[b].title_counts), books[b].price, b>> :
                    b \in {x \in DOMAIN books :
                             books[x].cnt > 0 /\ books[x].sum < 4 * books[x].cnt
                             /\ books[x].price # NAn}}
        sorted == SortedCands(cands)
        top10 == SubSeq(sorted, 1, IF Len(sorted) < TopK THEN Len(sorted) ELSE TopK)
    IN  DictOf(<<>>, top10)

\* ------------------------------------------------------------ programs
MasterOnly == {"t3_master_only", "t3q2_master", "t3q3_master", "t3q4_master"}
Participating == {"t3", "t3q2"}
Programs == MasterOnly \cup Participating

\* programs whose workers have an error channel (TAG_ERROR)
HasErrorTag == {"t3q2_master", "t3q3_master", "t3q4_master"}

\* (part_map, diagnostic) returned by the program's local aggregator on rows rs
WorkOf(p, rs) ==
    IF p = "t3q3_master"
    THEN LET local == Q3Work(EmptyMap, rs) IN <<local, Cardinality(DOMAIN local)>>
    ELSE IF p = "t3q4_master"
    THEN LET local == Q4Work(EmptyMap, rs) IN <<local, Cardinality(DOMAIN local)>>
    ELSE <<ProcessSliceMap(rs), ProcessSliceHits(rs)>>

\* the merge loop of the program over the list of partial maps
MergeOf(p, maps) ==
    IF p = "t3q3_master" THEN MergeQ3(EmptyMap, maps)
    ELSE IF p = "t3q4_master" THEN MergeQ4(EmptyMap, maps)
    ELSE MergeQ2(EmptyMap, maps)

\* one iteration of the merge loop: the map g folded with the partial map m
MergeStepOf(p, g, m) ==
    IF p = "t3q3_master" THEN MergeQ3Step(g, m)
    ELSE IF p = "t3q4_master" THEN MergeQ4Step(g, m)
    ELSE MergeQ2Step(g, m)

\* final answer of the program on the merged map
FinalOf(p, g) ==
    IF p = "t3q3_master" THEN FinalQ3(g)
    ELSE IF p = "t3q4_master" THEN FinalQ4(g)
    ELSE IF p \in {"t3", "t3_master_only"} THEN FinalQ2Avg(g)
    ELSE FinalQ2(g)

\* f"[rank {r}] {err}"
Tagged(r, err) == <<"[rank ", r, "] ", err>>

\* the dict rank 0 prints; site names the print statement
Printed(site, final, chunks, answers, time) ==
    [site |-> site, final_answer |-> final, chunkSizePerThread |-> chunks,
     answerPerThread |-> answers, totalTimeTaken |-> time]

Failure(site, final) == Printed(site, final, <<>>, <<>>, "0.0")

\* str(e) of the exceptions a worker's read or aggregation can raise
\* (str(MemoryError()) is the empty string)
ErrDescs == {"", "Column 'RScore' not found in dataset."}

\* rows of the files the protocol runs read
R1 == Row(<<65>>, <<65>>, <<88>>, <<84>>, Num(2), Num(5))
R2 == Row(<<65>>, <<65>>, <<88>>, <<84>>, Num(3), Num(5))
R3 == Row(<<66>>, <<66>>, <<88>>, <<84>>, NAn, Num(1))
ProtoRows == {R1, R2, R3}

VARIABLES
    prog,            \* which program mpirun launches
    size,            \* comm.Get_size()
    DATA_PATH,       \* "none" (unset), "missing" (no such file), "ok"
    DATASET_SIZE,    \* the configured row count
    file,            \* the rows of the file at DATA_PATH
    pc,              \* rank -> where the rank is in main() / run()
    down,            \* worker rank -> messages sent by rank 0, not yet received
    up,              \* worker rank -> messages sent to rank 0, not yet received
    sent,            \* rank -> tags of the point-to-point messages it has sent
    ranges,          \* rank 0: the list `ranges`
    r,               \* rank 0: the loop variable r
    slice,           \* rank -> <<lo, hi>> it works on (<<>> before it is known)
    outcome,         \* rank -> how its slice processing ended, and str(e) if it raised
    contrib,         \* rank -> what it passed to the gather collectives
    worker_partials, \* rank 0: worker_partials / worker_maps / partial_maps / all_maps
    per_rank_seen,   \* rank 0: per_rank_seen / per_rank_hits / local_counts
    worker_errors,   \* rank 0: worker_errors / [e for e in errors if e]
    gathered,        \* rank 0: per gather iteration, r and the envelope received
    global_map,      \* rank 0: <<>> until the merge loop has run, then <<map>>
    printed          \* the dicts rank 0 has printed

vars == <<prog, size, DATA_PATH, DATASET_SIZE, file, pc, down, up, sent, ranges, r,
          slice, outcome, contrib, worker_partials, per_rank_seen, worker_errors,
          gathered, global_map, printed>>

config == <<prog, size, DATA_PATH, DATASET_SIZE, file>>

Ranks == 0..(size - 1)
WorkerRanks == 1..(size - 1)
workers == size - 1

Init ==
    /\ prog \in Programs
    /\ size \in 1..MaxSize
    /\ DATA_PATH \in {"none", "missing", "ok"}
    /\ DATASET_SIZE \in 0..MaxRows
    /\ file \in IF DATA_PATH = "ok" THEN [1..DATASET_SIZE -> ProtoRows] ELSE {<<>>}
    /\ pc = [k \in Ranks |-> "start"]
    /\ down = [k \in WorkerRanks |-> <<>>]
    /\ up = [k \in WorkerRanks |-> <<>>]
    /\ sent = [k \in Ranks |-> <<>>]
    /\ ranges = <<>>
    /\ r = 0
    /\ slice = [k \in Ranks |-> <<>>]
    /\ outcome = [k \in Ranks |-> [kind |-> "none", err |-> ""]]
    /\ contrib = [k \in Ranks |-> <<>>]
    /\ worker_partials = <<>>
    /\ per_rank_seen = <<>>
    /\ worker_errors = <<>>
    /\ gathered = <<>>
    /\ global_map = <<>>
    /\ printed = <<>>

\* ------------------------------------------------------------ configuration checks
\* t3q2_master / t3q3_master / t3q4_master / t3q2.run:
\* (not DATA_PATH) or (not os.path.exists(DATA_PATH)) or (DATASET_SIZE <= 0)
InvalidConfig == DATA_PATH # "ok" \/ DATASET_SIZE <= 0

\* t3_master_only: not DATA_PATH or DATASET_SIZE <= 0 (evaluated on every rank)
MissingConfig == DATA_PATH = "none" \/ DATASET_SIZE <= 0

\* ------------------------------------------------------------ messages
Msg(tag, data) == [tag |-> tag, data |-> data]

\* the assignment rank 0 sends to worker k
RangeMsg(k) ==
    IF prog = "t3_master_only" THEN Msg("TAG_RANGE", ranges[k])
    ELSE Msg("TAG_RANGE", <<DATA_PATH, DATASET_SIZE, ranges[k][1], ranges[k][2]>>)

\* what reading and aggregating the rows [lo, hi) can do: return the partial map
\* and the diagnostic, or raise. A file that does not exist always raises; an
\* existing one raises when the environment fails (schema, memory, I/O)
SliceOutcomes(p, lohi) ==
    IF DATA_PATH # "ok"
    THEN {[kind |-> "raised", err |-> "[Errno 2] No such file or directory",
           part |-> EmptyMap, seen |-> 0]}
    ELSE {[kind |-> "returned", err |-> "",
           part |-> WorkOf(p, ReadRange(file, lohi[1], lohi[2]))[1],
           seen |-> WorkOf(p, ReadRange(file, lohi[1], lohi[2]))[2]]}
         \cup {[kind |-> "raised", err |-> d, part |-> EmptyMap, seen |-> 0] :
                 d \in ErrDescs}

\* the messages the worker branch sends once the slice processing has ended
WorkerReply(p, res) ==
    IF res.kind = "returned" THEN <<Msg("TAG_RESULT", <<res.part, res.seen>>)>>
    ELSE IF p \in HasErrorTag THEN <<Msg("TAG_ERROR", res.err)>>
    ELSE <<>>

\* faulty probe: source=MPI.ANY_SOURCE
ProbeAnySource(k, src) == TRUE

\* comm.probe(source=r, ...) / comm.recv(source=r, ...): the sender rank 0 accepts
\* in iteration k
ProbeSource(k, src) == src = k

\* the tags the receive of iteration k accepts: ANY_TAG after the probe, or
\* tag=TAG_RESULT in t3_master_only
AcceptsTag(p, tag) == p # "t3_master_only" \/ tag = "TAG_RESULT"

\* faulty gather loop: leaves the loop at the first error
AfterGatherStopAtError(k, tag) ==
    IF k = size - 1 \/ tag = "TAG_ERROR" THEN "decide" ELSE "gather"

\* where rank 0 continues after iteration k of `for r in range(1, size)`
AfterGather(k, tag) == IF k = size - 1 THEN "decide" ELSE "gather"

\* faulty failure policy: the job is aborted only when every worker failed
AbortsWhenAllFailed(p, errs) ==
    p # "t3_master_only" /\ p # "t3" /\ errs # <<>> /\ Len(errs) >= workers

\* `if worker_errors:` / `if any(errors):`
Aborts(p, errs) == p # "t3_master_only" /\ p # "t3" /\ errs # <<>>

\* ------------------------------------------------------------ master-only: rank 0
\* main() of rank 0 up to the first send: the checks and the split
MasterStart ==
    /\ prog \in MasterOnly
    /\ pc[0] = "start"
    /\ IF prog = "t3_master_only" /\ MissingConfig
       THEN /\ printed' = Append(printed, Failure("config", "Dataset path/size missing"))
            /\ pc' = [pc EXCEPT ![0] = "exit"]
            /\ UNCHANGED <<ranges, r>>
       ELSE IF workers < 1
       THEN /\ printed' = Append(printed, Failure("no_workers", "Need at least 1 worker"))
            /\ pc' = [pc EXCEPT ![0] = "exit"]
            /\ UNCHANGED <<ranges, r>>
       ELSE IF prog # "t3_master_only" /\ InvalidConfig
       THEN /\ printed' = Append(printed,
                             Failure("config", "Dataset path/size missing or invalid"))
            /\ pc' = [pc EXCEPT ![0] = "exit"]
            /\ UNCHANGED <<ranges, r>>
       ELSE /\ ranges' = Ranges(DATASET_SIZE, workers)
            /\ r' = 1
            /\ pc' = [pc EXCEPT ![0] = "dispatch"]
            /\ UNCHANGED printed
    /\ UNCHANGED <<config, down, up, sent, slice, outcome, contrib, worker_partials,
                   per_rank_seen, worker_errors, gathered, global_map>>

\* one iteration of the dispatch loop: comm.send(..., dest=r, tag=TAG_RANGE)
MasterSend ==
    /\ prog \in MasterOnly
    /\ pc[0] = "dispatch"
    /\ down' = [down EXCEPT ![r] = Append(@, RangeMsg(r))]
    /\ sent' = [sent EXCEPT ![0] = Append(@, "TAG_RANGE")]
    /\ IF r = size - 1
       THEN /\ r' = 1
            /\ pc' = [pc EXCEPT ![0] = "gather"]
       ELSE /\ r' = r + 1
            /\ UNCHANGED pc
    /\ UNCHANGED <<config, up, ranges, slice, outcome, contrib, worker_partials,
                   per_rank_seen, worker_errors, gathered, global_map, printed>>

\* one iteration of the gather loop: probe, then recv of the error or the result
MasterGather ==
    /\ prog \in MasterOnly
    /\ pc[0] = "gather"
    /\ \E src \in WorkerRanks :
        /\ ProbeSource(r, src)
        /\ up[src] # <<>>
        /\ AcceptsTag(prog, Head(up[src]).tag)
        /\ LET m == Head(up[src])
           IN  /\ up' = [up EXCEPT ![src] = Tail(@)]
               /\ gathered' = Append(gathered, [r |-> r, source |-> src, tag |-> m.tag])
               /\ IF m.tag = "TAG_ERROR"
                  THEN /\ worker_errors' = Append(worker_errors, Tagged(r, m.data))
                       /\ UNCHANGED <<worker_partials, per_rank_seen>>
                  ELSE /\ worker_partials' = Append(worker_partials, m.data[1])
                       /\ per_rank_seen' = Append(per_rank_seen, m.data[2])
                       /\ UNCHANGED worker_errors
               /\ pc' = [pc EXCEPT ![0] = AfterGather(r, m.tag)]
               /\ r' = r + 1
    /\ UNCHANGED <<config, down, sent, ranges, slice, outcome, contrib, global_map,
                   printed>>

\* `if worker_errors: print(...); return`
MasterAbort ==
    /\ pc[0] = "decide"
    /\ Aborts(prog, worker_errors)
    /\ printed' = Append(printed,
                         Failure("worker_errors", <<"Worker errors: ", worker_errors>>))
    /\ pc' = [pc EXCEPT ![0] = "done"]
    /\ UNCHANGED <<config, down, up, sent, ranges, r, slice, outcome, contrib,
                   worker_partials, per_rank_seen, worker_errors, gathered, global_map>>

\* the merge loop over the partial maps
MasterMerge ==
    /\ pc[0] = "decide"
    /\ ~Aborts(prog, worker_errors)
    /\ global_map' = <<MergeOf(prog, worker_partials)>>
    /\ pc' = [pc EXCEPT ![0] = "resolve"]
    /\ UNCHANGED <<config, down, up, sent, ranges, r, slice, outcome, contrib,
                   worker_partials, per_rank_seen, worker_errors, gathered, printed>>

\* faulty resolver: the count-of-matches answer is the sum of the workers' local
\* hit counts
FinalAnswerFromHits ==
    IF prog \in {"t3q3_master", "t3q4_master"} THEN FinalOf(prog, global_map[1])
    ELSE SumSeq(per_rank_seen)

\* `final`: the answer computed from the merged map
FinalAnswer == FinalOf(prog, global_map[1])

\* the final answer, the chunk sizes, and the print of the result
MasterResolve ==
    /\ pc[0] = "resolve"
    /\ printed' = Append(printed,
            Printed("success", FinalAnswer,
                    IF prog \in MasterOnly THEN MasterChunkSizes(ranges)
                    ELSE RunChunks(DATASET_SIZE, size),
                    IF prog \in MasterOnly THEN <<0>> \o per_rank_seen
                    ELSE per_rank_seen,
                    "elapsed"))
    /\ pc' = [pc EXCEPT ![0] = "done"]
    /\ UNCHANGED <<config, down, up, sent, ranges, r, slice, outcome, contrib,
                   worker_partials, per_rank_seen, worker_errors, gathered, global_map>>

\* ------------------------------------------------------------ master-only: workers
\* t3_master_only: every rank returns before the worker branch when the
\* configuration is missing
WorkerReturn(w) ==
    /\ prog = "t3_master_only"
    /\ w \in WorkerRanks
    /\ pc[w] = "start"
    /\ MissingConfig
    /\ pc' = [pc EXCEPT ![w] = "exit"]
    /\ UNCHANGED <<config, down, up, sent, ranges, r, slice, outcome, contrib,
                   worker_partials, per_rank_seen, worker_errors, gathered, global_map,
                   printed>>

\* comm.recv(source=0, tag=TAG_RANGE)
WorkerRecv(w) ==
    /\ prog \in MasterOnly
    /\ w \in WorkerRanks
    /\ pc[w] = "start"
    /\ ~(prog = "t3_master_only" /\ MissingConfig)
    /\ down[w] # <<>>
    /\ LET d == Head(down[w]).data
       IN  slice' = [slice EXCEPT ![w] = <<d[Len(d) - 1], d[Len(d)]>>]
    /\ down' = [down EXCEPT ![w] = Tail(@)]
    /\ pc' = [pc EXCEPT ![w] = "work"]
    /\ UNCHANGED <<config, up, sent, ranges, r, outcome, contrib, worker_partials,
                   per_rank_seen, worker_errors, gathered, global_map, printed>>

\* _work(lo, hi) / _process_slice(lo, hi), then the send of the result, or the
\* except branch
WorkerWork(w) ==
    /\ prog \in MasterOnly
    /\ w \in WorkerRanks
    /\ pc[w] = "work"
    /\ \E res \in SliceOutcomes(prog, slice[w]) :
        /\ outcome' = [outcome EXCEPT ![w] = [kind |-> res.kind, err |-> res.err]]
        /\ up' = [up EXCEPT ![w] = @ \o WorkerReply(prog, res)]
        /\ sent' = [sent EXCEPT
                      ![w] = @ \o [i \in 1..Len(WorkerReply(prog, res)) |->
                                      WorkerReply(prog, res)[i].tag]]
    /\ pc' = [pc EXCEPT ![w] = "done"]
    /\ UNCHANGED <<config, down, ranges, r, slice, contrib, worker_partials,
                   per_rank_seen, worker_errors, gathered, global_map, printed>>

\* ------------------------------------------------------------ participating run()
\* what rank k passes to the gather collectives
Contribution(res) == <<[part |-> res.part, seen |-> res.seen, err |-> res.err]>>

\* t3.MPISolution.run of rank k up to the gathers: the whole body is inside one
\* try, so a raise skips the gathers; rank 0 prints str(err)
RunWorkT3(k) ==
    /\ prog = "t3"
    /\ k \in Ranks
    /\ pc[k] = "start"
    /\ IF DATA_PATH = "none"
       THEN /\ outcome' = [outcome EXCEPT ![k] = [kind |-> "raised",
                                                  err |-> "Dataset path not provided."]]
            /\ printed' = IF k = 0
                          THEN Append(printed,
                                      Failure("exception", "Dataset path not provided."))
                          ELSE printed
            /\ pc' = [pc EXCEPT ![k] = "done"]
            /\ UNCHANGED <<slice, contrib>>
       ELSE /\ slice' = [slice EXCEPT ![k] = RangeOf(DATASET_SIZE, size, k)]
            /\ \E res \in SliceOutcomes(prog, RangeOf(DATASET_SIZE, size, k)) :
                /\ outcome' = [outcome EXCEPT ![k] = [kind |-> res.kind, err |-> res.err]]
                /\ IF res.kind = "raised"
                   THEN /\ printed' = IF k = 0
                                      THEN Append(printed, Failure("exception", res.err))
                                      ELSE printed
                        /\ pc' = [pc EXCEPT ![k] = "done"]
                        /\ UNCHANGED contrib
                   ELSE /\ contrib' = [contrib EXCEPT ![k] = Contribution(res)]
                        /\ pc' = [pc EXCEPT ![k] = IF k = 0 THEN "gather" ELSE "done"]
                        /\ UNCHANGED printed
    /\ UNCHANGED <<config, down, up, sent, ranges, r, worker_partials, per_rank_seen,
                   worker_errors, gathered, global_map>>

\* t3q2.MPISolution.run of rank k up to the gathers: the bcast from rank 0, the
\* validation, the slice, and the try around _process_slice only
RunWorkT3Q2(k) ==
    /\ prog = "t3q2"
    /\ k \in Ranks
    /\ pc[k] = "start"
    /\ k = 0 \/ pc[0] # "start"
    /\ IF InvalidConfig
       THEN /\ printed' = IF k = 0
                          THEN Append(printed,
                                 Failure("config", "Dataset path/size missing or invalid"))
                          ELSE printed
            /\ pc' = [pc EXCEPT ![k] = "exit"]
            /\ UNCHANGED <<slice, outcome, contrib>>
       ELSE /\ slice' = [slice EXCEPT ![k] = RangeOf(DATASET_SIZE, size, k)]
            /\ \E res \in SliceOutcomes(prog, RangeOf(DATASET_SIZE, size, k)) :
                /\ outcome' = [outcome EXCEPT ![k] = [kind |-> res.kind, err |-> res.err]]
                /\ contrib' = [contrib EXCEPT ![k] = Contribution(res)]
            /\ pc' = [pc EXCEPT ![k] = IF k = 0 THEN "gather" ELSE "done"]
            /\ UNCHANGED printed
    /\ UNCHANGED <<config, down, up, sent, ranges, r, worker_partials, per_rank_seen,
                   worker_errors, gathered, global_map>>

\* [e for e in errors if e]
RECURSIVE NonEmptyErrors(_)
NonEmptyErrors(errs) ==
    IF errs = <<>> THEN <<>>
    ELSE (IF Head(errs) # "" THEN <<<<Head(errs)>>>> ELSE <<>>)
         \o NonEmptyErrors(Tail(errs))

\* rank 0 returns from comm.gather(..., root=0): every rank has contributed
RootGather ==
    /\ prog \in Participating
    /\ pc[0] = "gather"
    /\ \A k \in Ranks : contrib[k] # <<>>
    /\ worker_partials' = [i \in 1..size |-> contrib[i - 1][1].part]
    /\ per_rank_seen' = [i \in 1..size |-> contrib[i - 1][1].seen]
    /\ worker_errors' = NonEmptyErrors([i \in 1..size |-> contrib[i - 1][1].err])
    /\ gathered' = [i \in 1..size |-> [r |-> i - 1, source |-> i - 1, tag |-> "gather"]]
    /\ pc' = [pc EXCEPT ![0] = "decide"]
    /\ UNCHANGED <<config, down, up, sent, ranges, r, slice, outcome, contrib,
                   global_map, printed>>

\* ------------------------------------------------------------ specification
Next ==
    \/ MasterStart
    \/ MasterSend
    \/ MasterGather
    \/ MasterAbort
    \/ MasterMerge
    \/ MasterResolve
    \/ \E w \in WorkerRanks : WorkerReturn(w)
    \/ \E w \in WorkerRanks : WorkerRecv(w)
    \/ \E w \in WorkerRanks : WorkerWork(w)
    \/ \E k \in Ranks : RunWorkT3(k)
    \/ \E k \in Ranks : RunWorkT3Q2(k)
    \/ RootGather

Spec == Init /\ [][Next]_vars

\* ------------------------------------------------------------ the query jobs on data
\* The master-only count-of-matches and multi-winner jobs on files whose ratings
\* are not all whole numbers, for every worker count in 1..MaxJobW.
\* ratings 14.0 and 0.5 on book X, 5.0 on X, 4.5 and 3.5 on Y; one row without a
\* rating
J1 == Row(<<65>>, <<65>>, <<88>>, <<84>>, Num(2), Num(14))
J2 == Row(<<65>>, <<65>>, <<88>>, <<84>>, Num(2), Frac(1, 2))
J3 == Row(<<66>>, <<66>>, <<88>>, <<84>>, Num(2), Num(5))
J4 == Row(<<67>>, <<67>>, <<89>>, <<85>>, Num(3), Frac(9, 2))
J5 == Row(<<67>>, <<67>>, <<89>>, <<85>>, NAn, Frac(7, 2))
J6 == Row(<<66>>, <<66>>, <<89>>, <<85>>, Num(3), NAn)
JobRows == {J1, J2, J3, J4, J5, J6}

\* the state of every rank before main() has run
Fresh ==
    /\ pc = [k \in Ranks |-> "start"]
    /\ down = [k \in WorkerRanks |-> <<>>]
    /\ up = [k \in WorkerRanks |-> <<>>]
    /\ sent = [k \in Ranks |-> <<>>]
    /\ ranges = <<>>
    /\ r = 0
    /\ slice = [k \in Ranks |-> <<>>]
    /\ outcome = [k \in Ranks |-> [kind |-> "none", err |-> ""]]
    /\ contrib = [k \in Ranks |-> <<>>]
    /\ worker_partials = <<>>
    /\ per_rank_seen = <<>>
    /\ worker_errors = <<>>
    /\ gathered = <<>>
    /\ global_map = <<>>
    /\ printed = <<>>

InitJob ==
    /\ prog \in {"t3q2_master", "t3q3_master"}
    /\ size \in 2..(MaxJobW + 1)
    /\ DATA_PATH = "ok"
    /\ DATASET_SIZE \in 1..MaxJobRows
    /\ file \in [1..DATASET_SIZE -> JobRows]
    /\ Fresh

NextJob ==
    \/ MasterStart
    \/ MasterSend
    \/ MasterGather
    \/ MasterAbort
    \/ MasterMerge
    \/ MasterResolve
    \/ \E w \in WorkerRanks : WorkerRecv(w)
    \/ \E w \in WorkerRanks : WorkerWork(w)

SpecJob == InitJob /\ [][NextJob]_vars

\* ------------------------------------------------------------ the label pickers alone
\* Rank 0 after the gather of one worker whose partial map holds one user (or one
\* book) with every label-count map over Labels: the merge, then the picker call of
\* the resolver.
\* "A", "AB", "B", "a"
Labels == {<<65>>, <<65, 66>>, <<66>>, <<97>>}

\* the dict(Counter) payloads over Labels
LabelCounts == UNION {[D -> 1..MaxLabelCount] : D \in SUBSET Labels}

RECURSIVE CounterTotal(_)
CounterTotal(c) ==
    IF DOMAIN c = {} THEN 0
    ELSE LET k == CHOOSE k \in DOMAIN c : TRUE
         IN  c[k] + CounterTotal([x \in (DOMAIN c) \ {k} |-> c[x]])

\* a payload entry whose rows carried the labels counted in c
EntryWith(p, c) ==
    LET n == IF CounterTotal(c) = 0 THEN 1 ELSE CounterTotal(c)
    IN  IF p = "t3q3_master"
        THEN [sum |-> 4 * n, cnt |-> n, books |-> {<<88>>}, name_counts |-> c]
        ELSE [sum |-> 3 * n, cnt |-> n, price |-> Num(2), title_counts |-> c]

\* rank 0 of a master-only program after it has gathered the partial map m of its
\* one worker, which read n rows
Gathered(m, n) ==
    /\ size = 2
    /\ DATA_PATH = "ok"
    /\ DATASET_SIZE = n
    /\ file = <<>>
    /\ pc = (0 :> "decide" @@ 1 :> "done")
    /\ down = [k \in WorkerRanks |-> <<>>]
    /\ up = [k \in WorkerRanks |-> <<>>]
    /\ sent = (0 :> <<"TAG_RANGE">> @@ 1 :> <<"TAG_RESULT">>)
    /\ ranges = Ranges(n, 1)
    /\ r = 2
    /\ slice = (0 :> <<>> @@ 1 :> <<0, n>>)
    /\ outcome = (0 :> [kind |-> "none", err |-> ""]
                  @@ 1 :> [kind |-> "returned", err |-> ""])
    /\ contrib = [k \in Ranks |-> <<>>]
    /\ worker_partials = <<m>>
    /\ per_rank_seen = <<Cardinality(DOMAIN m)>>
    /\ worker_errors = <<>>
    /\ gathered = <<[r |-> 1, source |-> 1, tag |-> "TAG_RESULT"]>>
    /\ global_map = <<>>
    /\ printed = <<>>

InitPick ==
    /\ prog \in {"t3q3_master", "t3q4_master"}
    /\ \E id \in {<<85>>, <<65>>} : \E c \in LabelCounts :
        Gathered((id :> EntryWith(prog, c)),
                 IF CounterTotal(c) = 0 THEN 1 ELSE CounterTotal(c))

\* name_of = {uid: pick_display_name(uid, dict(u["name_counts"])) ...} of
\* t3q3_master; title = pick_title(info["title_counts"]) per book of t3q4_master
PickStep ==
    /\ prog \in {"t3q3_master", "t3q4_master"}
    /\ pc[0] = "resolve"
    /\ printed' = <<[id \in DOMAIN global_map[1] |->
                      IF prog = "t3q3_master"
                      THEN pick_display_name(id, global_map[1][id].name_counts)
                      ELSE pick_title(global_map[1][id].title_counts)]>>
    /\ pc' = [pc EXCEPT ![0] = "done"]
    /\ UNCHANGED <<config, down, up, sent, ranges, r, slice, outcome, contrib,
                   worker_partials, per_rank_seen, worker_errors, gathered, global_map>>

NextPick ==
    \/ MasterMerge
    \/ PickStep

SpecPick == InitPick /\ [][NextPick]_vars

\* ------------------------------------------------------------ the resolvers alone
\* Rank 0 after the gather of one worker whose partial map holds up to MaxUsers
\* users (multi-winner job) or up to MaxBooks books (top-K job): the merge and the
\* resolution.
\* "U1", "U2", ... ; "B1", "B2", ...
UserId(i) == <<85, 48 + i>>
BookId(i) == <<66, 48 + i>>

\* a user's payload entry over 3 rows: average 4 or below 4, one to three distinct
\* books "X", "Y", "Z", no name or the name "N"
UserEntries ==
    {[sum |-> sm, cnt |-> 3, books |-> B, name_counts |-> c] :
        sm \in {12, 11},
        B \in {{<<88>>}, {<<88>>, <<89>>}, {<<88>>, <<89>>, <<90>>}},
        c \in {EmptyMap, (<<78>> :> 1)}}

UserMaps ==
    UNION {[{UserId(i) : i \in I} -> UserEntries] : I \in SUBSET (1..MaxUsers)}

\* n books, one row each: book i has price i (or, paired, books 1 and 2 have price
\* 1, books 3 and 4 price 2, ...), its own title "Ti" (or, shared, books 1 and 2
\* both "T"); book j (if any) has rating 4 and the others rating 3
BookMap(n, paired, shared, j) ==
    [b \in {BookId(i) : i \in 1..n} |->
        LET i == CHOOSE i \in 1..n : BookId(i) = b
        IN  [sum |-> IF i = j THEN 4 ELSE 3,
             cnt |-> 1,
             price |-> IF paired THEN Num((i + 1) \div 2) ELSE Num(i),
             title_counts |-> IF shared /\ i <= 2 THEN (<<84>> :> 1)
                              ELSE (<<84, 48 + i>> :> 1)]]

BookMaps ==
    {BookMap(n, paired, shared, j) :
        n \in 0..MaxBooks, paired \in BOOLEAN, shared \in BOOLEAN, j \in 0..MaxBooks}

\* the rows counted in a payload
RECURSIVE RowsOf(_)
RowsOf(m) ==
    IF DOMAIN m = {} THEN 0
    ELSE LET k == CHOOSE k \in DOMAIN m : TRUE
         IN  m[k].cnt + RowsOf([x \in (DOMAIN m) \ {k} |-> m[x]])

\* a book's (rsum, rcnt, price) over c rows: no rating at all, or c ratings whose
\* float sum is any float up to 6 * c; no price, 2 or 3
MatchEntries ==
    {e \in {<<sm, c, p>> : sm \in {Fl(x) : x \in 0..(Num(6) * MaxMatchCount)},
                            c \in 0..MaxMatchCount,
                            p \in {NAn, Num(2), Num(3)}} :
        IF e[2] = 0 THEN e[1] = 0 ELSE e[1] <= Num(6) * e[2]}

\* book "X" with any entry, alone or with a book "Y" that matches or has no rating
MatchMaps ==
    {EmptyMap}
    \cup {(<<88>> :> e) : e \in MatchEntries}
    \cup {(<<88>> :> e @@ <<89>> :> f) :
            e \in MatchEntries, f \in {<<Num(5), 1, Num(2)>>, <<0, 0, Num(2)>>}}

\* the rows behind a payload of the count-of-matches job
RECURSIVE RowsOfMatch(_)
RowsOfMatch(m) ==
    IF DOMAIN m = {} THEN 0
    ELSE LET k == CHOOSE k \in DOMAIN m : TRUE
         IN  (IF m[k][2] = 0 THEN 1 ELSE m[k][2])
             + RowsOfMatch([x \in (DOMAIN m) \ {k} |-> m[x]])

InitResolve ==
    /\ prog \in MasterOnly
    /\ \/ /\ prog \in {"t3q3_master", "t3q4_master"}
          /\ \E m \in (IF prog = "t3q3_master" THEN UserMaps ELSE BookMaps) :
                Gathered(m, IF RowsOf(m) = 0 THEN 1 ELSE RowsOf(m))
       \/ /\ prog \in {"t3_master_only", "t3q2_master"}
          /\ \E m \in MatchMaps :
                Gathered(m, IF RowsOfMatch(m) = 0 THEN 1 ELSE RowsOfMatch(m))

NextResolve ==
    \/ MasterMerge
    \/ MasterResolve

SpecResolve == InitResolve /\ [][NextResolve]_vars

\* ------------------------------------------------------------ the merge loop alone
\* Rank 0 of a master-only program after a gather in which every worker returned
\* its partial map, for every file of up to MaxMergeRows rows and every worker
\* count in 1..MaxMergeW: the merge loop, one partial map per step, then the
\* resolution.
M1 == Row(<<65>>, <<97>>, <<88>>, <<84>>, Num(2), Num(5))
M2 == Row(<<65>>, <<98>>, <<88>>, <<85>>, Num(3), Num(3))
M3 == Row(<<65>>, NAs, <<89>>, <<84>>, NAn, Num(4))
M4 == Row(<<66>>, <<97>>, <<88>>, NAs, NAn, Num(4))
M5 == Row(<<66>>, <<98>>, <<89>>, <<85>>, Num(2), NAn)
MergeRows == {M1, M2, M3, M4, M5}

InitMerge ==
    /\ prog \in {"t3q2_master", "t3q3_master", "t3q4_master"}
    /\ size \in 2..(MaxMergeW + 1)
    /\ DATA_PATH = "ok"
    /\ DATASET_SIZE \in 1..MaxMergeRows
    /\ file \in [1..DATASET_SIZE -> MergeRows]
    /\ pc = [k \in Ranks |-> IF k = 0 THEN "merge" ELSE "done"]
    /\ down = [k \in WorkerRanks |-> <<>>]
    /\ up = [k \in WorkerRanks |-> <<>>]
    /\ sent = [k \in Ranks |-> IF k = 0 THEN [i \in 1..workers |-> "TAG_RANGE"]
                                ELSE <<"TAG_RESULT">>]
    /\ ranges = Ranges(DATASET_SIZE, workers)
    /\ r = 1
    /\ slice = [k \in Ranks |-> IF k = 0 THEN <<>>
                                 ELSE RangeOf(DATASET_SIZE, workers, k - 1)]
    /\ outcome = [k \in Ranks |-> IF k = 0 THEN [kind |-> "none", err |-> ""]
                                   ELSE [kind |-> "returned", err |-> ""]]
    /\ contrib = [k \in Ranks |-> <<>>]
    /\ worker_partials =
         [i \in 1..workers |->
            WorkOf(prog, ReadRange(file, RangeOf(DATASET_SIZE, workers, i - 1)[1],
                                   RangeOf(DATASET_SIZE, workers, i - 1)[2]))[1]]
    /\ per_rank_seen =
         [i \in 1..workers |->
            WorkOf(prog, ReadRange(file, RangeOf(DATASET_SIZE, workers, i - 1)[1],
                                   RangeOf(DATASET_SIZE, workers, i - 1)[2]))[2]]
    /\ worker_errors = <<>>
    /\ gathered = [i \in 1..workers |-> [r |-> i, source |-> i, tag |-> "TAG_RESULT"]]
    /\ global_map = <<EmptyMap>>
    /\ printed = <<>>

\* one iteration of `for m in worker_partials:` (r is the position in the list)
MergeStep ==
    /\ pc[0] = "merge"
    /\ r <= Len(worker_partials)
    /\ global_map' = <<MergeStepOf(prog, global_map[1], worker_partials[r])>>
    /\ r' = r + 1
    /\ pc' = [pc EXCEPT ![0] = IF r = Len(worker_partials) THEN "resolve" ELSE "merge"]
    /\ UNCHANGED <<config, down, up, sent, ranges, slice, outcome, contrib,
                   worker_partials, per_rank_seen, worker_errors, gathered, printed>>

NextMerge ==
    \/ MergeStep
    \/ MasterResolve

SpecMerge == InitMerge /\ [][NextMerge]_vars

\* ------------------------------------------------------------ the local aggregators alone
\* One worker of a master-only program that has received the range [0, N) of a
\* file of N <= MaxAggRows rows with missing ratings, ids, labels and prices and
\* with blank strings: its _work / _process_slice call and the gather of its
\* message by rank 0.
\* user "A", name "a", book "X", title "T"
A1 == Row(<<65>>, <<97>>, <<88>>, <<84>>, Num(2), Num(5))
\* the same book at another price, without name and title
A2 == Row(<<65>>, NAs, <<88>>, NAs, Num(3), Num(3))
\* without price
A3 == Row(<<65>>, <<97>>, <<88>>, <<84>>, NAn, Num(4))
\* without rating
A4 == Row(<<65>>, <<97>>, <<88>>, <<84>>, Num(3), NAn)
\* without user id
A5 == Row(NAs, <<97>>, <<88>>, <<84>>, Num(2), Num(4))
\* without book id
A6 == Row(<<65>>, <<97>>, NAs, <<84>>, Num(2), Num(4))
\* name, book id and title are one space
A7 == Row(<<65>>, <<32>>, <<32>>, <<32>>, Num(2), Num(4))
\* user "B" and book "Y" without rating
A8 == Row(<<66>>, <<98>>, <<89>>, <<85>>, Num(2), NAn)
AggRows == {A1, A2, A3, A4, A5, A6, A7, A8}

InitAgg ==
    /\ prog \in MasterOnly
    /\ size = 2
    /\ DATA_PATH = "ok"
    /\ DATASET_SIZE \in 1..MaxAggRows
    /\ file \in [1..DATASET_SIZE -> AggRows]
    /\ pc = (0 :> "gather" @@ 1 :> "work")
    /\ down = [k \in WorkerRanks |-> <<>>]
    /\ up = [k \in WorkerRanks |-> <<>>]
    /\ sent = (0 :> <<"TAG_RANGE">> @@ 1 :> <<>>)
    /\ ranges = Ranges(DATASET_SIZE, 1)
    /\ r = 1
    /\ slice = (0 :> <<>> @@ 1 :> <<0, DATASET_SIZE>>)
    /\ outcome = [k \in Ranks |-> [kind |-> "none", err |-> ""]]
    /\ contrib = [k \in Ranks |-> <<>>]
    /\ worker_partials = <<>>
    /\ per_rank_seen = <<>>
    /\ worker_errors = <<>>
    /\ gathered = <<>>
    /\ global_map = <<>>
    /\ printed = <<>>

NextAgg ==
    \/ \E w \in WorkerRanks : WorkerWork(w)
    \/ MasterGather

SpecAgg == InitAgg /\ [][NextAgg]_vars

\* ------------------------------------------------------------ the job under fair scheduling
\* The master-only programs with every rank a process of its own that mpirun keeps
\* running: a rank that can take a step eventually takes one. A blocking receive
\* is a step that is not enabled until the message is there.
InitLive ==
    /\ prog \in MasterOnly
    /\ size \in 1..MaxLiveSize
    /\ DATA_PATH \in {"none", "missing", "ok"}
    /\ DATASET_SIZE \in 0..MaxLiveRows
    /\ file \in IF DATA_PATH = "ok" THEN [1..DATASET_SIZE -> ProtoRows] ELSE {<<>>}
    /\ Fresh

\* the steps of rank 0
MasterStep ==
    \/ MasterStart
    \/ MasterSend
    \/ MasterGather
    \/ MasterAbort
    \/ MasterMerge
    \/ MasterResolve

\* the steps of worker rank w
WorkerStep(w) ==
    \/ WorkerReturn(w)
    \/ WorkerRecv(w)
    \/ WorkerWork(w)

NextLive ==
    \/ MasterStep
    \/ \E w \in WorkerRanks : WorkerStep(w)

SpecLive ==
    /\ InitLive
    /\ [][NextLive]_vars
    /\ WF_vars(MasterStep)
    /\ \A w \in 1..(MaxLiveSize - 1) : WF_vars(WorkerStep(w))

\* ------------------------------------------------------------ the partitioner alone
\* The split of [0, N) for every N in 1..MaxPartN and every worker count in
\* 1..MaxPartW: the loop of the master-only programs, one iteration per step, and
\* the per-rank slice of the participating programs, one rank per step.
InitPart ==
    /\ prog \in Programs
    /\ size \in 1..(MaxPartW + 1)
    /\ prog \in MasterOnly => size >= 2
    /\ prog \in Participating => size <= MaxPartW
    /\ DATA_PATH = "ok"
    /\ DATASET_SIZE \in 1..MaxPartN
    /\ file = <<>>
    /\ pc = [k \in Ranks |-> "start"]
    /\ down = [k \in WorkerRanks |-> <<>>]
    /\ up = [k \in WorkerRanks |-> <<>>]
    /\ sent = [k \in Ranks |-> <<>>]
    /\ ranges = <<>>
    /\ r = 0
    /\ slice = [k \in Ranks |-> <<>>]
    /\ outcome = [k \in Ranks |-> [kind |-> "none", err |-> ""]]
    /\ contrib = [k \in Ranks |-> <<>>]
    /\ worker_partials = <<>>
    /\ per_rank_seen = <<>>
    /\ worker_errors = <<>>
    /\ gathered = <<>>
    /\ global_map = <<>>
    /\ printed = <<>>

\* one iteration of `for w in range(workers)`: ranges.append((lo, hi))
SplitStep ==
    /\ prog \in MasterOnly
    /\ pc[0] = "start"
    /\ Len(ranges) < workers
    /\ ranges' = Append(ranges, RangeOf(DATASET_SIZE, workers, Len(ranges)))
    /\ pc' = [pc EXCEPT ![0] = IF Len(ranges) + 1 = workers THEN "split" ELSE "start"]
    /\ UNCHANGED <<config, down, up, sent, r, slice, outcome, contrib, worker_partials,
                   per_rank_seen, worker_errors, gathered, global_map, printed>>

\* rank k of a participating program computes its own lo and hi
SliceStep(k) ==
    /\ prog \in Participating
    /\ k \in Ranks
    /\ pc[k] = "start"
    /\ slice' = [slice EXCEPT ![k] = RangeOf(DATASET_SIZE, size, k)]
    /\ pc' = [pc EXCEPT ![k] = "split"]
    /\ UNCHANGED <<config, down, up, sent, ranges, r, outcome, contrib, worker_partials,
                   per_rank_seen, worker_errors, gathered, global_map, printed>>

\* rank 0 builds the chunk-size list it reports
ChunkStep ==
    /\ \A k \in Ranks : k = 0 \/ prog \in Participating => pc[k] = "split"
    /\ printed' = <<IF prog \in MasterOnly THEN MasterChunkSizes(ranges)
                    ELSE RunChunks(DATASET_SIZE, size)>>
    /\ pc' = [pc EXCEPT ![0] = "done"]
    /\ UNCHANGED <<config, down, up, sent, ranges, r, slice, outcome, contrib,
                   worker_partials, per_rank_seen, worker_errors, gathered, global_map>>

NextPart ==
    \/ SplitStep
    \/ \E k \in Ranks : SliceStep(k)
    \/ ChunkStep

SpecPart == InitPart /\ [][NextPart]_vars

\* the ranges assigned to the workers, in worker order, once all are computed:
\* the list `ranges` of a master-only program, the slices of ranks 0..size-1 of a
\* participating one; <<>> before
Assigned ==
    IF prog \in MasterOnly
    THEN IF Len(ranges) = workers THEN ranges ELSE <<>>
    ELSE IF \A k \in Ranks : slice[k] # <<>> THEN [i \in 1..size |-> slice[i - 1]]
    ELSE <<>>

\* ------------------------------------------------------------ properties
\* exactly one q with q * w <= n < (q + 1) * w
Floor(n, w) == CHOOSE q \in 0..n : q * w <= n /\ n < (q + 1) * w

SizesOf(rs) == [i \in 1..Len(rs) |-> rs[i][2] - rs[i][1]]

\* the dicts printed by the statement `site`
PrintedAt(site) == {i \in 1..Len(printed) : printed[i].site = site}

\* the ranks whose message or contribution rank 0 gathers
GatherFrom == IF prog \in MasterOnly THEN WorkerRanks ELSE Ranks

GatheredFrom(k) == {i \in 1..Len(gathered) : gathered[i].source = k}

\* worker k has reported an error to rank 0
ReportedError(k) ==
    IF prog \in MasterOnly
    THEN k \in WorkerRanks /\ sent[k] = <<"TAG_ERROR">>
    ELSE prog = "t3q2" /\ contrib[k] # <<>> /\ contrib[k][1].err # ""

\* C1 (as claimed): in the master-only programs a worker never sends more than one
\* message, and a worker whose branch has ended has sent exactly one: a result if
\* its slice processing returned, an error if it raised. Stated for the runs whose
\* dataset file exists, where a raise comes from the schema or the environment.
C1_OneTerminalMessage ==
    (prog \in MasterOnly /\ DATA_PATH = "ok") =>
        \A w \in WorkerRanks :
            /\ Len(sent[w]) <= 1
            /\ pc[w] = "done" =>
                sent[w] = <<IF outcome[w].kind = "returned" THEN "TAG_RESULT"
                            ELSE "TAG_ERROR">>

\* C2: rank 0 consumes at most one message per worker; once the gather has ended
\* (rank 0 decides, merges, resolves or has printed the outcome of a gather) it has
\* consumed exactly one from every worker, also after an error; the global map is
\* written only then.
PastGather ==
    \/ pc[0] \in {"decide", "resolve"}
    \/ global_map # <<>>
    \/ PrintedAt("success") # {}
    \/ PrintedAt("worker_errors") # {}

C2_GatherBeforeMerge ==
    /\ \A k \in Ranks : Cardinality(GatheredFrom(k)) <= 1
    /\ PastGather =>
        /\ \A k \in GatherFrom : Cardinality(GatheredFrom(k)) = 1
        /\ Len(gathered) = Cardinality(GatherFrom)
        /\ prog \in MasterOnly => \A k \in WorkerRanks : up[k] = <<>>

C2_Witness ==
    /\ prog \in MasterOnly
    /\ size = 3
    /\ global_map = <<>>
    /\ pc[0] = "decide"
    /\ gathered[1].tag = "TAG_ERROR"
    /\ gathered[2].tag = "TAG_RESULT"

\* C3: once a worker has reported an error the global map is never built and no
\* success record is printed; the record rank 0 prints is the failure record with
\* empty chunk sizes and diagnostics and a time of 0.0.
C3_ErrorAborts ==
    (\E k \in Ranks : ReportedError(k)) =>
        /\ global_map = <<>>
        /\ pc[0] # "resolve"
        /\ \A i \in 1..Len(printed) :
            /\ printed[i].site = "worker_errors"
            /\ printed[i].chunkSizePerThread = <<>>
            /\ printed[i].answerPerThread = <<>>
            /\ printed[i].totalTimeTaken = "0.0"
        /\ pc[0] = "done" => Len(printed) = 1

C3_Witness ==
    /\ pc[0] = "done"
    /\ Len(printed) = 1
    /\ \E k \in Ranks : ReportedError(k)
    /\ \E k \in GatherFrom : outcome[k].kind = "returned"

\* C4 (as claimed): the failure record lists the description of every worker that
\* reported an error, tagged with that worker's rank.
C4_ErrorsTagged ==
    \A i \in PrintedAt("worker_errors") :
        \A k \in Ranks :
            ReportedError(k) =>
                \E j \in 1..Len(printed[i].final_answer[2]) :
                    printed[i].final_answer[2][j] = Tagged(k, outcome[k].err)

\* C5: in every gather iteration the message received was sent by the worker the
\* iteration is for, and rank 0 files it under the errors exactly when that worker
\* sent it on the error channel.
C5_Attribution ==
    prog \in MasterOnly =>
        /\ \A i \in 1..Len(gathered) :
            /\ gathered[i].source = gathered[i].r
            /\ gathered[i].tag = "TAG_ERROR" <=> sent[gathered[i].r] = <<"TAG_ERROR">>
            /\ gathered[i].tag = "TAG_RESULT" <=> sent[gathered[i].r] = <<"TAG_RESULT">>
        /\ \A k \in WorkerRanks :
            (\E j \in 1..Len(worker_errors) : worker_errors[j][2] = k)
                <=> (GatheredFrom(k) # {} /\ outcome[k].kind = "raised")
        /\ Len(worker_partials) =
             Cardinality({k \in WorkerRanks :
                            GatheredFrom(k) # {} /\ outcome[k].kind = "returned"})

C5_Witness ==
    /\ prog \in MasterOnly
    /\ size = 3
    /\ Len(gathered) = 2
    /\ outcome[1].kind = "returned"
    /\ outcome[2].kind = "raised"
    /\ Len(worker_partials) = 1
    /\ Len(worker_errors) = 1

\* C6: the success record of a job in which every slice processing returned is a
\* function of the configuration and the file alone: it is the fold, in rank order,
\* of the partial maps of the assigned ranges, whatever the order in which the
\* workers finished and sent.
ReferenceRanges ==
    IF prog \in MasterOnly THEN Ranges(DATASET_SIZE, workers)
    ELSE [i \in 1..size |-> RangeOf(DATASET_SIZE, size, i - 1)]

ReferenceParts ==
    [i \in 1..Len(ReferenceRanges) |->
        WorkOf(prog, ReadRange(file, ReferenceRanges[i][1], ReferenceRanges[i][2]))]

ReferenceResult ==
    Printed("success",
            FinalOf(prog, MergeOf(prog, [i \in 1..Len(ReferenceParts) |->
                                            ReferenceParts[i][1]])),
            (IF prog \in MasterOnly THEN <<0>> ELSE <<>>) \o SizesOf(ReferenceRanges),
            (IF prog \in MasterOnly THEN <<0>> ELSE <<>>)
                \o [i \in 1..Len(ReferenceParts) |-> ReferenceParts[i][2]],
            "elapsed")

C6_OrderIndependent ==
    \A i \in PrintedAt("success") :
        (\A k \in GatherFrom : outcome[k].kind = "returned") =>
            printed[i] = ReferenceResult

\* two workers hold the same book with different prices, and the job succeeded
C6_Witness ==
    /\ prog \in {"t3q2_master", "t3q4_master"}
    /\ size = 3
    /\ PrintedAt("success") # {}
    /\ \E b \in DOMAIN worker_partials[1] :
        /\ b \in DOMAIN worker_partials[2]
        /\ IF prog = "t3q2_master"
           THEN worker_partials[1][b][3] # worker_partials[2][b][3]
           ELSE worker_partials[1][b].price # worker_partials[2][b].price

\* C7 (as claimed): with fewer than one worker, a dataset location that is unset or
\* does not exist, or a row count <= 0, rank 0 of a master-only program sends no
\* range assignment and prints the configuration failure.
C7_NoDispatchOnBadConfig ==
    (prog \in MasterOnly /\ (workers < 1 \/ DATA_PATH # "ok" \/ DATASET_SIZE <= 0)) =>
        /\ sent[0] = <<>>
        /\ \A w \in WorkerRanks : down[w] = <<>> /\ slice[w] = <<>>
        /\ \A i \in 1..Len(printed) : printed[i].site \in {"config", "no_workers"}
        /\ pc[0] \in {"exit", "done"} => Len(printed) = 1

\* C8: for N >= 1 and W >= 1 the assigned ranges start at 0, end at N, are adjacent
\* and not inverted; every row index of [0, N) lies in exactly one of them and the
\* sizes sum to N.
C8_PartitionCovers ==
    Assigned # <<>> =>
        LET W == Len(Assigned)
        IN  /\ W = Cardinality(GatherFrom)
            /\ Assigned[1][1] = 0
            /\ Assigned[W][2] = DATASET_SIZE
            /\ \A i \in 1..(W - 1) : Assigned[i][2] = Assigned[i + 1][1]
            /\ \A i \in 1..W : Assigned[i][1] <= Assigned[i][2]
            /\ \A x \in 0..(DATASET_SIZE - 1) :
                Cardinality({i \in 1..W :
                    Assigned[i][1] <= x /\ x < Assigned[i][2]}) = 1
            /\ \A i \in 1..W : 0 <= Assigned[i][1] /\ Assigned[i][2] <= DATASET_SIZE
            /\ SumSeq(SizesOf(Assigned)) = DATASET_SIZE

\* fewer rows than workers: some ranges are empty
C8_Witness ==
    /\ Assigned # <<>>
    /\ Len(Assigned) >= 3
    /\ DATASET_SIZE < Len(Assigned)
    /\ Assigned[1][1] = Assigned[1][2]

\* C9: each of the first W-1 workers gets floor(N/W) rows, the last one gets
\* N - (W-1) * floor(N/W); the chunk list rank 0 reports holds these sizes.
C9_RemainderToLast ==
    Assigned # <<>> =>
        LET W == Len(Assigned)
            q == Floor(DATASET_SIZE, W)
            expect == [i \in 1..W |-> IF i < W THEN q ELSE DATASET_SIZE - (W - 1) * q]
        IN  /\ SizesOf(Assigned) = expect
            /\ printed # <<>> =>
                printed[1] = (IF prog \in MasterOnly THEN <<0>> ELSE <<>>) \o expect

C9_Witness ==
    /\ Assigned # <<>>
    /\ printed # <<>>
    /\ Len(Assigned) = 3
    /\ DATASET_SIZE = 8
    /\ SizesOf(Assigned) = <<2, 2, 4>>

\* C10 (as claimed): a success record holds W chunk sizes and W diagnostics, one
\* per worker in worker order, entry w being hi - lo of worker w's range, and the
\* chunk sizes sum to the row count.
C10_OnePerWorker ==
    \A i \in PrintedAt("success") :
        LET W == Cardinality(GatherFrom)
            first == IF prog \in MasterOnly THEN 1 ELSE 0
        IN  /\ Len(printed[i].chunkSizePerThread) = W
            /\ Len(printed[i].answerPerThread) = W
            /\ \A w \in 1..W :
                printed[i].chunkSizePerThread[w] =
                    slice[first + w - 1][2] - slice[first + w - 1][1]
            /\ SumSeq(printed[i].chunkSizePerThread) = DATASET_SIZE

\* C10 (amended): a success record holds one chunk size and one diagnostic per MPI
\* rank, in rank order: in a master-only program a 0 for rank 0 and then one entry
\* per worker; the entry of rank k is hi - lo of the range rank k worked on and the
\* diagnostic it returned; the chunk sizes sum to the row count.
C10_OnePerRank ==
    \A i \in PrintedAt("success") :
        /\ Len(printed[i].chunkSizePerThread) = size
        /\ Len(printed[i].answerPerThread) = size
        /\ prog \in MasterOnly =>
            /\ printed[i].chunkSizePerThread[1] = 0
            /\ printed[i].answerPerThread[1] = 0
        /\ \A k \in GatherFrom :
            /\ printed[i].chunkSizePerThread[k + 1] = slice[k][2] - slice[k][1]
            /\ printed[i].answerPerThread[k + 1] =
                 IF prog \in MasterOnly
                 THEN WorkOf(prog, ReadRange(file, slice[k][1], slice[k][2]))[2]
                 ELSE contrib[k][1].seen
        /\ SumSeq(printed[i].chunkSizePerThread) = DATASET_SIZE

C10_Witness ==
    /\ prog \in MasterOnly
    /\ size = 3
    /\ DATASET_SIZE = 3
    /\ PrintedAt("success") # {}
    /\ printed[1].chunkSizePerThread = <<0, 1, 2>>

\* ------------------------------------------------------------ the dataset as a whole
\* the rows of the file that carry a rating for book b, and their exact sum
RatedRowsOfBook(b) == {i \in 1..Len(file) : file[i].BId = b /\ file[i].RScore # NAn}

ExactSum(I) == SumSeq([i \in 1..Len(file) |-> IF i \in I THEN file[i].RScore ELSE 0])

PricesOfBook(b) ==
    {file[i].BPrice : i \in {j \in 1..Len(file) : file[j].BId = b}} \ {NAn}

BooksOfFile == {file[i].BId : i \in 1..Len(file)} \ {NAs}

\* the rows of the file the multi-winner query counts for user u
RatedRowsOfUser(u) ==
    {i \in 1..Len(file) :
        file[i].UId = u /\ file[i].BId # NAs /\ file[i].RScore # NAn}

UsersOfFile == {file[i].UId : i \in 1..Len(file)} \ {NAs}

\* C11 (as claimed): on a file in which no book has two different prices, the
\* count-of-matches job prints, for every worker count, the number of books that
\* have a rating, whose ratings sum to exactly 5 times their number, and whose
\* price is 2.
C11_CountForEveryW ==
    (prog = "t3q2_master" /\ \A b \in BooksOfFile : Cardinality(PricesOfBook(b)) <= 1) =>
        \A i \in PrintedAt("success") :
            printed[i].final_answer =
                Cardinality({b \in BooksOfFile :
                    /\ RatedRowsOfBook(b) # {}
                    /\ ExactSum(RatedRowsOfBook(b)) =
                         Num(5) * Cardinality(RatedRowsOfBook(b))
                    /\ PricesOfBook(b) = {Num(2)}})

\* C12 (as claimed): in the multi-winner job a user whose counted rows have
\* ratings summing to exactly 4 times their number is eligible in the merged map
\* (count non-zero and sum = 4 * count), for every worker count.
C12_ExactFourEligible ==
    (prog = "t3q3_master" /\ global_map # <<>>) =>
        \A u \in UsersOfFile :
            (/\ RatedRowsOfUser(u) # {}
             /\ ExactSum(RatedRowsOfUser(u)) = Num(4) * Cardinality(RatedRowsOfUser(u)))
            => /\ u \in DOMAIN global_map[1]
               /\ global_map[1][u].cnt # 0
               /\ global_map[1][u].sum = 4 * global_map[1][u].cnt

\* C13: the final answer of a success record is determined by the program and the
\* list of partial maps rank 0 gathered: it is the resolver applied to the merge of
\* those maps, whatever diagnostic counts came with them; the diagnostics are only
\* copied into answerPerThread.
C13_DiagnosticsUnused ==
    \A i \in PrintedAt("success") :
        /\ printed[i].final_answer = FinalOf(prog, MergeOf(prog, worker_partials))
        /\ printed[i].answerPerThread =
             (IF prog \in MasterOnly THEN <<0>> ELSE <<>>) \o per_rank_seen

\* two workers each count a local hit for the same book, which is one match once
\* merged
C13_Witness ==
    /\ prog = "t3q2_master"
    /\ size = 3
    /\ PrintedAt("success") # {}
    /\ printed[1].answerPerThread = <<0, 1, 1>>
    /\ printed[1].final_answer = 1

\* s <= t in dictionary order: equal, a proper prefix, or smaller at the first
\* position where they differ
LexLeq(s, t) ==
    \/ s = t
    \/ Len(s) < Len(t) /\ \A i \in 1..Len(s) : s[i] = t[i]
    \/ \E i \in 1..Len(s) :
        /\ i <= Len(t)
        /\ s[i] < t[i]
        /\ \A j \in 1..(i - 1) : s[j] = t[j]

\* the label-count map of entity id in the merged map
CountsOf(id) ==
    IF prog = "t3q3_master" THEN global_map[1][id].name_counts
    ELSE global_map[1][id].title_counts

\* label l is a most frequent label of id, and the smallest of the most frequent
IsCanonical(l, id) ==
    /\ l \in DOMAIN CountsOf(id)
    /\ \A n \in DOMAIN CountsOf(id) :
        /\ CountsOf(id)[n] <= CountsOf(id)[l]
        /\ CountsOf(id)[n] = CountsOf(id)[l] => LexLeq(l, n)

\* C14 (as claimed): both pickers return the most frequent label, the smallest
\* one among the most frequent, and the entity id when the map is empty.
C14_PickerFallsBackToId ==
    (pc[0] = "done" /\ printed # <<>>) =>
        \A id \in DOMAIN printed[1] :
            IF DOMAIN CountsOf(id) = {} THEN printed[1][id] = id
            ELSE IsCanonical(printed[1][id], id)

\* C14 (amended): both pickers return the most frequent label, the smallest one
\* among the most frequent; when the map is empty pick_display_name returns the
\* user id and pick_title returns the empty string.
C14_Picker ==
    (pc[0] = "done" /\ printed # <<>>) =>
        \A id \in DOMAIN printed[1] :
            IF DOMAIN CountsOf(id) = {}
            THEN printed[1][id] = (IF prog = "t3q3_master" THEN id ELSE <<>>)
            ELSE IsCanonical(printed[1][id], id)

\* "A", "AB" and "a" tied at the top count, "B" below: "A" is picked
C14_Witness ==
    /\ pc[0] = "done"
    /\ printed # <<>>
    /\ \E id \in DOMAIN printed[1] :
        /\ CountsOf(id) = (<<65>> :> 2 @@ <<65, 66>> :> 2 @@ <<66>> :> 1 @@ <<97>> :> 2)
        /\ printed[1][id] = <<65>>

\* the books of the merged map the top-K query keeps
EligibleBooks ==
    {b \in DOMAIN global_map[1] :
        /\ global_map[1][b].cnt > 0
        /\ global_map[1][b].sum < 4 * global_map[1][b].cnt
        /\ global_map[1][b].price # NAn}

TitleOf(b) == pick_title(global_map[1][b].title_counts)

\* book x comes strictly before book b: higher price, or the same price and a
\* smaller title
KeyBefore(x, b) ==
    \/ global_map[1][x].price > global_map[1][b].price
    \/ /\ global_map[1][x].price = global_map[1][b].price
       /\ TitleOf(x) # TitleOf(b)
       /\ LexLeq(TitleOf(x), TitleOf(b))

KeyEqual(x, b) ==
    global_map[1][x].price = global_map[1][b].price /\ TitleOf(x) = TitleOf(b)

\* C15 (as claimed): the top-K answer has min(10, m) entries for m eligible books;
\* entry i pairs the title of the eligible book at place i of the order (price
\* descending, title ascending) with that book's own price.
C15_TopTen ==
    prog = "t3q4_master" =>
        \A k \in PrintedAt("success") :
            LET fa == printed[k].final_answer
                m == Cardinality(EligibleBooks)
            IN  /\ Len(fa) = (IF m < 10 THEN m ELSE 10)
                /\ \A i \in 1..Len(fa) :
                    \E b \in EligibleBooks :
                        /\ fa[i] = <<TitleOf(b), global_map[1][b].price>>
                        /\ Cardinality({x \in EligibleBooks : KeyBefore(x, b)}) < i
                        /\ i <= Cardinality({x \in EligibleBooks :
                                                KeyBefore(x, b) \/ KeyEqual(x, b)})

\* the users of the merged map the multi-winner query keeps, and its winners
EligibleUsers ==
    {u \in DOMAIN global_map[1] :
        /\ global_map[1][u].cnt > 0
        /\ global_map[1][u].sum = 4 * global_map[1][u].cnt}

Winners ==
    {u \in EligibleUsers :
        \A v \in EligibleUsers :
            Cardinality(global_map[1][v].books) <= Cardinality(global_map[1][u].books)}

WinnerLabels ==
    {pick_display_name(u, global_map[1][u].name_counts) : u \in Winners}

\* l[1], ", ", l[2], ", ", ... built from the right
RECURSIVE CommaList(_)
CommaList(l) ==
    IF Len(l) = 0 THEN <<>>
    ELSE IF Len(l) = 1 THEN l[1]
    ELSE CommaList(SubSeq(l, 1, Len(l) - 1)) \o <<44, 32>> \o l[Len(l)]

\* C16: the multi-winner answer is the comma-separated list, in strictly
\* increasing dictionary order (so without duplicates), of the canonical labels
\* of exactly the eligible users with the most distinct books; it is the empty
\* string when no user is eligible.
C16_MultiWinner ==
    prog = "t3q3_master" =>
        \A k \in PrintedAt("success") :
            /\ EligibleUsers = {} => printed[k].final_answer = <<>>
            /\ \E l \in [1..Cardinality(WinnerLabels) -> WinnerLabels] :
                /\ {l[i] : i \in 1..Len(l)} = WinnerLabels
                /\ \A i \in 1..(Len(l) - 1) : l[i] # l[i + 1] /\ LexLeq(l[i], l[i + 1])
                /\ printed[k].final_answer = CommaList(l)

\* U1 and U2 are eligible with two books each, one named "N" and one unnamed; U3
\* has three books but is not eligible: the answer is "N, U2"
C16_Witness ==
    /\ prog = "t3q3_master"
    /\ PrintedAt("success") # {}
    /\ DOMAIN global_map[1] = {UserId(1), UserId(2), UserId(3)}
    /\ EligibleUsers = {UserId(1), UserId(2)}
    /\ Cardinality(global_map[1][UserId(3)].books) = 3
    /\ Winners = {UserId(1), UserId(2)}
    /\ printed[1].final_answer = <<78, 44, 32, 85, 50>>

\* ------------------------------------------------------------ the merge
\* the merge loop has run over the whole list
MergeDone == pc[0] \in {"resolve", "done"} /\ global_map # <<>>

\* the number of partial maps folded into the global map so far
Folded == IF pc[0] = "merge" THEN r - 1 ELSE Len(worker_partials)

ListOrders(n) == {f \in [1..n -> 1..n] : \A i, j \in 1..n : f[i] = f[j] => i = j}

\* the sublist of l at the positions S, in list order
RECURSIVE SubList(_, _)
SubList(l, S) ==
    IF l = <<>> THEN <<>>
    ELSE SubList(SubSeq(l, 1, Len(l) - 1), S)
         \o (IF Len(l) \in S THEN <<l[Len(l)]>> ELSE <<>>)

\* C17 (as claimed): the merge of any permutation of the list of partial maps is
\* the global map the merge loop built, in every field.
C17_MergeOrderFree ==
    MergeDone =>
        \A f \in ListOrders(Len(worker_partials)) :
            MergeOf(prog, [i \in 1..Len(worker_partials) |-> worker_partials[f[i]]])
                = global_map[1]

\* C18 (as claimed): in the multi-winner and top-K jobs, for every split of the
\* list of partial maps into two groups (each in list order, the group of the
\* first partial map first), merging each group and then merging the two merged
\* maps gives the global map the merge loop built.
C18_MergeGroups ==
    (prog \in {"t3q3_master", "t3q4_master"} /\ MergeDone) =>
        \A S \in {T \in SUBSET (1..Len(worker_partials)) : 1 \in T} :
            MergeOf(prog,
                    <<MergeOf(prog, SubList(worker_partials, S)),
                      MergeOf(prog, SubList(worker_partials,
                                            (1..Len(worker_partials)) \ S))>>)
                = global_map[1]

\* the partial maps folded so far that hold entity id
Holders(id) == {i \in 1..Folded : id \in DOMAIN worker_partials[i]}

LabelsIn(m, id) ==
    IF prog = "t3q3_master" THEN m[id].name_counts ELSE m[id].title_counts

SumOver(I, f) == SumSeq([i \in 1..Len(worker_partials) |-> IF i \in I THEN f[i] ELSE 0])

\* C19: in the multi-winner and top-K jobs, after every iteration of the merge
\* loop the global map holds exactly the ids of the partial maps folded so far;
\* an id's sum and count are the sums over those partials, its set of distinct
\* books is the union of theirs, and each label's frequency is the sum of its
\* frequencies in them.
C19_MergeSums ==
    (prog \in {"t3q3_master", "t3q4_master"} /\ global_map # <<>>) =>
        /\ DOMAIN global_map[1] = UNION {DOMAIN worker_partials[i] : i \in 1..Folded}
        /\ \A id \in DOMAIN global_map[1] :
            /\ global_map[1][id].sum =
                 SumOver(Holders(id), [i \in Holders(id) |-> worker_partials[i][id].sum])
            /\ global_map[1][id].cnt =
                 SumOver(Holders(id), [i \in Holders(id) |-> worker_partials[i][id].cnt])
            /\ prog = "t3q3_master" =>
                 global_map[1][id].books =
                     UNION {worker_partials[i][id].books : i \in Holders(id)}
            /\ DOMAIN LabelsIn(global_map[1], id) =
                 UNION {DOMAIN LabelsIn(worker_partials[i], id) : i \in Holders(id)}
            /\ \A l \in DOMAIN LabelsIn(global_map[1], id) :
                 LabelsIn(global_map[1], id)[l] =
                     SumOver({i \in Holders(id) : l \in DOMAIN LabelsIn(worker_partials[i], id)},
                             [i \in Holders(id) |->
                                 IF l \in DOMAIN LabelsIn(worker_partials[i], id)
                                 THEN LabelsIn(worker_partials[i], id)[l] ELSE 0])

\* three partial maps hold user "A": ratings 5, 3, 4, books X, X, Y, names a, b
C19_Witness ==
    /\ prog = "t3q3_master"
    /\ MergeDone
    /\ Len(worker_partials) = 3
    /\ \A i \in 1..3 : <<65>> \in DOMAIN worker_partials[i]
    /\ global_map[1][<<65>>] =
         [sum |-> 12, cnt |-> 3, books |-> {<<88>>, <<89>>},
          name_counts |-> (<<97>> :> 1 @@ <<98>> :> 1)]

\* the price field of book b in a count-of-matches or top-K map
PriceIn(m, b) == IF prog = "t3q4_master" THEN m[b].price ELSE m[b][3]

\* the partial maps that supply a price for book b
Suppliers(b) ==
    {i \in 1..Len(worker_partials) :
        b \in DOMAIN worker_partials[i] /\ PriceIn(worker_partials[i], b) # NAn}

\* C20: in the count-of-matches and top-K jobs an iteration of the merge loop
\* never changes a price the global map already holds; after the loop a book's
\* price is the price in the first partial map of the list (worker rank order)
\* that has one, and is missing exactly when no partial map has one.
C20_PriceFirstWins ==
    /\ []((prog \in {"t3q2_master", "t3q4_master"} /\ MergeDone) =>
            \A b \in DOMAIN global_map[1] :
                PriceIn(global_map[1], b) =
                    IF Suppliers(b) = {} THEN NAn
                    ELSE PriceIn(worker_partials[
                             CHOOSE i \in Suppliers(b) : \A j \in Suppliers(b) : i <= j], b))
    /\ [][(prog \in {"t3q2_master", "t3q4_master"} /\ global_map # <<>>) =>
            \A b \in DOMAIN global_map[1] :
                PriceIn(global_map[1], b) # NAn =>
                    /\ b \in DOMAIN global_map'[1]
                    /\ PriceIn(global_map'[1], b) = PriceIn(global_map[1], b)]_vars

\* book X comes without a price from worker 1, at 2 from worker 2 and at 3 from
\* worker 3: the merged price is 2
C20_Witness ==
    /\ prog \in {"t3q2_master", "t3q4_master"}
    /\ MergeDone
    /\ Len(worker_partials) = 3
    /\ \A i \in 1..3 : <<88>> \in DOMAIN worker_partials[i]
    /\ PriceIn(worker_partials[1], <<88>>) = NAn
    /\ PriceIn(worker_partials[2], <<88>>) = Num(2)
    /\ PriceIn(worker_partials[3], <<88>>) = Num(3)
    /\ PriceIn(global_map[1], <<88>>) = Num(2)

\* ------------------------------------------------------------ the local aggregation
\* the partial maps the worker has produced: in its result message, or gathered
Produced ==
    {up[1][i].data[1] : i \in {j \in 1..Len(up[1]) : up[1][j].tag = "TAG_RESULT"}}
    \cup {worker_partials[i] : i \in 1..Len(worker_partials)}

\* the rows of the worker's partition
Partition == ReadRange(file, slice[1][1], slice[1][2])

\* the id of the entity the query aggregates: the user, or the book
PrimaryId(row) == IF prog = "t3q3_master" THEN row.UId ELSE row.BId

\* a row the aggregator has to skip
Skippable(row) == row.RScore = NAn \/ PrimaryId(row) = NAs

Kept(rs) == SelectSeq(rs, LAMBDA row : ~Skippable(row))

\* the rows of the partition that count for entity e
CountedRows(e) ==
    {i \in 1..Len(Partition) : PrimaryId(Partition[i]) = e /\ Partition[i].RScore # NAn}

RatingTotal(I) ==
    SumSeq([i \in 1..Len(Partition) |-> IF i \in I THEN Partition[i].RScore ELSE 0])

\* C21 (as claimed): the partial map a worker produces from its partition is the
\* map the aggregator produces from the partition without the rows that have no
\* rating or no primary id, for the per-row aggregators and the group-by one.
C21_SkippedRowsIgnored ==
    \A m \in Produced : m = WorkOf(prog, Kept(Partition))[1]

\* C22 (as claimed): in the per-row aggregators every entity that has a row with a
\* rating is in the partial map, its count is the number of its rows with a rating
\* and its sum is the sum of their ratings, whatever the other fields of the rows.
C22_RatedRowsCount ==
    prog \in {"t3q3_master", "t3q4_master"} =>
        \A m \in Produced :
            \A e \in {PrimaryId(Partition[i]) : i \in 1..Len(Partition)} \ {NAs} :
                CountedRows(e) # {} =>
                    /\ e \in DOMAIN m
                    /\ m[e].cnt = Cardinality(CountedRows(e))
                    /\ m[e].sum * Scale = RatingTotal(CountedRows(e))

\* C23 (as claimed): in the count-of-matches and top-K aggregators the price of a
\* book in the partial map is the price of the first row of the partition, among
\* the book's rows with a rating, that has a price; it is missing when there is
\* no such row.
C23_FirstPrice ==
    prog \in {"t3_master_only", "t3q2_master", "t3q4_master"} =>
        \A m \in Produced :
            \A b \in DOMAIN m :
                LET I == {i \in CountedRows(b) : Partition[i].BPrice # NAn}
                IN  PriceIn(m, b) =
                        IF I = {} THEN NAn
                        ELSE Partition[CHOOSE i \in I : \A j \in I : i <= j].BPrice

\* C25 (as claimed): in a partial map of the multi-winner and top-K aggregators
\* no book of a user's set of distinct books and no key of a label-count map is
\* empty or made of spaces only.
C25_NoBlankKeys ==
    prog \in {"t3q3_master", "t3q4_master"} =>
        \A m \in Produced :
            \A e \in DOMAIN m :
                /\ prog = "t3q3_master" => \A x \in m[e].books : Strip(x) # <<>>
                /\ \A l \in DOMAIN LabelsIn(m, e) : Strip(l) # <<>>

\* ------------------------------------------------------------ eligibility
\* the books of the merged count-of-matches map with a rating, a sum of exactly
\* 5 times the count, and price 2
Matching ==
    {b \in DOMAIN global_map[1] :
        /\ global_map[1][b][2] > 0
        /\ global_map[1][b][1] = Num(5) * global_map[1][b][2]
        /\ global_map[1][b][3] = Num(2)}

\* C24: the answer of every query is decided by the relation between the merged
\* sum and count: the count-of-matches answer, of the program that compares
\* s == 5 * c and of the program that compares s / c == 5, is the number of books
\* with count > 0, sum = 5 * count and price 2 (a book with count 0 is never
\* counted and the resolver does not fail on it); the multi-winner answer is
\* empty exactly when no user has count > 0 and sum = 4 * count; the titles of the
\* top-K answer are titles of books with count > 0, sum < 4 * count and a price,
\* and all of them when there are at most K.
C24_IntegerRelation ==
    \A k \in PrintedAt("success") :
        /\ prog \in {"t3_master_only", "t3q2_master"} =>
            printed[k].final_answer = Cardinality(Matching)
        /\ prog = "t3q3_master" =>
            (printed[k].final_answer = <<>> <=> EligibleUsers = {})
        /\ prog = "t3q4_master" =>
            LET titles == {printed[k].final_answer[i][1] :
                             i \in 1..Len(printed[k].final_answer)}
            IN  /\ titles \subseteq {TitleOf(b) : b \in EligibleBooks}
                /\ Cardinality(EligibleBooks) <= TopK =>
                     titles = {TitleOf(b) : b \in EligibleBooks}

\* the dividing program on a map in which book X has three ratings summing to 15
\* and book Y has a price of 2 but no rating: one match
C24_Witness ==
    /\ prog = "t3_master_only"
    /\ PrintedAt("success") # {}
    /\ global_map[1] = (<<88>> :> <<Num(15), 3, Num(2)>> @@ <<89>> :> <<0, 0, Num(2)>>)
    /\ printed[1].final_answer = 1

\* ------------------------------------------------------------ termination
\* C26 (as claimed): in a master-only run with at least one worker, once rank 0
\* has returned from the configuration check with the failure record, every
\* worker eventually terminates.
C26_WorkersTerminate ==
    (prog \in MasterOnly /\ workers >= 1 /\ pc[0] = "exit")
        ~> (\A w \in WorkerRanks : pc[w] \in {"exit", "done"})

\* C27 (as claimed): in every master-only program, once rank 0 has entered the
\* gather loop it eventually leaves it, prints exactly one record and terminates
\* (every worker's slice processing returns or raises).
C27_CoordinatorFinishes ==
    (prog \in MasterOnly /\ pc[0] = "gather")
        ~> (pc[0] = "done" /\ Len(printed) = 1)

\* C28 (as claimed): in the participating programs the ranks that have run their
\* slice processing have all entered the gathers or have all skipped them,
\* whether or not the slice processing of some of them raised.
C28_SameCollectives ==
    prog \in Participating =>
        \A j, k \in Ranks :
            (pc[j] # "start" /\ pc[k] # "start") =>
                (contrib[j] = <<>> <=> contrib[k] = <<>>)

====
